---- MODULE Spec2Model ----
(***************************************************************************)
(* The iko ledger engine (src/src/iko/blockchain.go): NewBlockChain with   *)
(* its InitState replay, InjectTx with the checker of MakeTxChecker, the   *)
(* read accessors under the RWMutex, the service goroutine and Close.      *)
(* ChainDB, StateDB and Transaction.Verify are collaborators whose code is *)
(* not part of the engine file; they are modelled from their contracts.    *)
(***************************************************************************)
EXTENDS Naturals, Sequences, FiniteSets, TLC

\* Longest chain log the model lets InjectTx calls build.
MaxChain == 3

Kitties == {"k1", "k2"}
CreatorPK == "pkC"
Keys == {"pkC", "pkX"}
Injectors == {"w1", "w2"}
Readers == {"r1", "r2"}

\* cipher.AddressFromPubKey: an address is derived from a public key.
AddressOf(pk) == IF pk = "pkC" THEN "aC" ELSE "aX"
Addresses == {AddressOf(pk) : pk \in Keys}

EmptyTxHash == <<>>
UnknownHash == <<"unknown">>
BadHash == <<"bad">>

\* The content digest of a transaction: a function of all its other fields,
\* injective (no collisions).
Hash(tx) == <<tx.KittyID, tx.In, tx.Out, tx.Sig>>

\* A signature is modelled by the key it verifies under.
SigValid(tx, pk) == tx.Sig = pk
SigValidAddr(tx, addr) == AddressOf(tx.Sig) = addr

MkTx(k, in, out, sig, wellformed) ==
    LET c == [KittyID |-> k, In |-> in, Out |-> out, Sig |-> sig]
    IN [KittyID |-> k, In |-> in, Out |-> out, Sig |-> sig,
        hash |-> IF wellformed THEN Hash(c) ELSE BadHash]

NoTx == MkTx("none", EmptyTxHash, "none", "none", FALSE)

\* Transaction.Verify(unspent, creatorPK); unspent = NoTx stands for nil.
Verify(tx, unspent, pk) ==
    IF tx.hash # Hash(tx) THEN "MalformedTransaction"
    ELSE IF unspent = NoTx
         THEN IF tx.In = EmptyTxHash /\ SigValid(tx, pk) THEN "ok"
              ELSE "UnauthorizedCreation"
         ELSE IF tx.In # Hash(unspent) THEN "StaleReference"
              ELSE IF ~SigValidAddr(tx, unspent.Out) THEN "InvalidSignature"
              ELSE "ok"

\* Transaction.IsKittyGen(creatorPK): creation-shaped and signed by the issuer.
IsKittyGen(tx, pk) == tx.In = EmptyTxHash /\ SigValid(tx, pk)

(***************************************************************************)
(* StateDB: the ownership projection.                                      *)
(***************************************************************************)
NoKitty == [ok |-> FALSE, Unspent |-> EmptyTxHash, Address |-> "none"]
EmptyState == [kitties |-> [k \in Kitties |-> NoKitty],
               addresses |-> [a \in Addresses |-> {}]]

\* StateDB.GetKittyUnspentTx(kittyID) -> (hash, ok)
GetKittyUnspentTx(st, k) == st.kitties[k]

\* StateDB.AddKitty(txHash, kittyID, out): DuplicateAsset if the kitty exists.
AddKitty(st, h, k, out) ==
    IF st.kitties[k].ok THEN [err |-> "DuplicateAsset", st |-> st]
    ELSE [err |-> "ok",
          st |-> [kitties |-> [st.kitties EXCEPT ![k] =
                                  [ok |-> TRUE, Unspent |-> h, Address |-> out]],
                  addresses |-> [st.addresses EXCEPT ![out] = @ \cup {k}]]]

\* StateDB.MoveKitty(txHash, kittyID, from, to): StaleOwnership if the kitty
\* is unknown or its live owner is not `from`.
MoveKitty(st, h, k, from, to) ==
    IF ~st.kitties[k].ok \/ st.kitties[k].Address # from
    THEN [err |-> "StaleOwnership", st |-> st]
    ELSE [err |-> "ok",
          st |-> [kitties |-> [st.kitties EXCEPT ![k] =
                                  [ok |-> TRUE, Unspent |-> h, Address |-> to]],
                  addresses |-> [a \in Addresses |->
                                  IF a = to THEN st.addresses[a] \cup {k}
                                  ELSE IF a = from THEN st.addresses[a] \ {k}
                                  ELSE st.addresses[a]]]]

(***************************************************************************)
(* ChainDB: the chain log, sequence numbers dense from 0 (chain[i+1] is    *)
(* the transaction of sequence i).                                         *)
(***************************************************************************)
ChainLen(ch) == Len(ch)

\* ChainDB.GetTxOfSeq(seq)
HasSeq(ch, seq) == seq < Len(ch)
TxOfSeq(ch, seq) == ch[seq + 1]

\* ChainDB.GetTxOfHash(hash): NoTx stands for the NotFound error.
TxOfHash(ch, h) ==
    IF \E i \in 1..Len(ch) : Hash(ch[i]) = h
    THEN ch[CHOOSE i \in 1..Len(ch) : Hash(ch[i]) = h]
    ELSE NoTx

\* ChainDB.Head(): NoTx stands for the empty-chain error.
ChainHead(ch) == IF Len(ch) = 0 THEN NoTx ELSE ch[Len(ch)]

(***************************************************************************)
(* The engine state.                                                       *)
(***************************************************************************)
VARIABLES
    chain,      \* bc.chain: the persisted log (survives a restart)
    state,      \* bc.state: the projection
    txChan,     \* bc.chain.TxChan(): notifications not yet received
    mux,        \* bc.mux: [writer, readers]
    quit,       \* bc.quit is closed
    boot,       \* NewBlockChain: "prepare", "init", "up" (engine returned), "failed"
    ri,         \* InitState's loop index i
    bootErr,    \* the error NewBlockChain returned, or "none"
    svc,        \* service goroutine: "none", "wait", "hook", "exited", "panicked"
    svcTx,      \* the transaction the TxAction hook is running on
    ipc, itx, ires,   \* InjectTx callers: position, argument, returned error
    iun,        \* InjectTx callers: the checker's local `unspent`
    rpc, racc, rval,  \* read accessor callers: position, call, returned value
    hooked,     \* history: the transactions TxAction was invoked on, in order
    bootLen,    \* history: chain length when this engine was constructed
    committed,  \* history: (chain, state) when the write lock was last free
    closeRet,   \* history: number of this engine's InjectTx successes returned before Close
    raced,      \* history: two InjectTx calls that spend the same unspent hash, and
                \* the errors they have returned so far
    pkg,        \* the package the engine is of: "iko" or "kchain"
    hookErr,    \* history: a TxAction invocation has returned an error
    ppc, parg,  \* GetTransactionPage caller: position, (currentPage, perPage)
    ptxs,       \* GetTransactionPage caller: `transactions`
    pres        \* GetTransactionPage caller: the returned value

vars == <<chain, state, txChan, mux, quit, boot, ri, bootErr, svc, svcTx,
          ipc, itx, ires, iun,
          rpc, racc, rval, hooked, bootLen, committed, closeRet, raced,
          pkg, hookErr, ppc, parg, ptxs, pres>>

engineVars == <<txChan, mux, quit, svc, svcTx>>
injVars == <<ipc, itx, ires, iun>>
readVars == <<rpc, racc, rval>>
pageVars == <<ppc, parg, ptxs, pres>>

NoRace == [h |-> EmptyTxHash, txs |-> {}, outs |-> <<>>]
NoLock == [writer |-> "none", readers |-> 0]
Alive == svc # "panicked"

(***************************************************************************)
(* MakeTxChecker: the closure handed to ChainDB.AddTx and run by InitState.*)
(* It verifies the transaction against the kitty's unspent transaction and *)
(* applies it to the projection; the result is the error and the new state.*)
(***************************************************************************)
\* Lines 149-159: look up the kitty's unspent transaction and verify.
CheckVerify(ch, st, tx) ==
    LET u == GetKittyUnspentTx(st, tx.KittyID)
        unspent == IF u.ok THEN TxOfHash(ch, u.Unspent) ELSE NoTx
    IN  IF u.ok /\ unspent = NoTx
        THEN [err |-> "NotFound", unspent |-> NoTx]
        ELSE [err |-> Verify(tx, unspent, CreatorPK), unspent |-> unspent]

\* The apply step recording the spent input hash instead of tx.Hash().
CheckApplyStaleHash(st, tx, unspent) ==
    IF IsKittyGen(tx, CreatorPK)
    THEN AddKitty(st, tx.In, tx.KittyID, tx.Out)
    ELSE IF unspent = NoTx
         THEN [err |-> "NilDereference", st |-> st]
         ELSE MoveKitty(st, tx.In, tx.KittyID, unspent.Out, tx.Out)

\* Lines 160-181: apply the verified transaction to the projection.
CheckApply(st, tx, unspent) ==
    IF IsKittyGen(tx, CreatorPK)
    THEN AddKitty(st, Hash(tx), tx.KittyID, tx.Out)
    ELSE IF unspent = NoTx
         THEN [err |-> "NilDereference", st |-> st]
         ELSE MoveKitty(st, Hash(tx), tx.KittyID, unspent.Out, tx.Out)

TxChecker(ch, st, tx) ==
    LET v == CheckVerify(ch, st, tx)
    IN  IF v.err # "ok" THEN [err |-> v.err, st |-> st]
        ELSE CheckApply(st, tx, v.unspent)

\* InitState as a function of the log: the checker run on the transactions
\* of sequence i, i+1, ... up to n-1, stopping at the first error.
RECURSIVE InitStateFrom(_, _, _, _)
InitStateFrom(ch, st, i, n) ==
    IF ~(i < n) THEN [err |-> "ok", st |-> st, i |-> i]
    ELSE LET r == TxChecker(ch, st, TxOfSeq(ch, i))
         IN  IF r.err # "ok" THEN [err |-> r.err, st |-> st, i |-> i]
             ELSE InitStateFrom(ch, r.st, i + 1, n)

Init ==
    /\ chain = <<>>
    /\ state = EmptyState
    /\ txChan = <<>>
    /\ mux = NoLock
    /\ quit = FALSE
    /\ boot = "prepare"
    /\ ri = 1
    /\ bootErr = "none"
    /\ svc = "none"
    /\ svcTx = NoTx
    /\ ipc = [w \in Injectors |-> "idle"]
    /\ itx = [w \in Injectors |-> NoTx]
    /\ ires = [w \in Injectors |-> "none"]
    /\ iun = [w \in Injectors |-> NoTx]
    /\ rpc = [r \in Readers |-> "idle"]
    /\ racc = [r \in Readers |-> <<>>]
    /\ rval = [r \in Readers |-> <<>>]
    /\ hooked = <<>>
    /\ bootLen = 0
    /\ committed = <<chain, state>>
    /\ closeRet = 0
    /\ raced = NoRace
    /\ pkg = "iko"
    /\ hookErr = FALSE
    /\ ppc = "idle"
    /\ parg = <<>>
    /\ ptxs = <<>>
    /\ pres = <<>>

(***************************************************************************)
(* NewBlockChain                                                           *)
(***************************************************************************)
\* config.Prepare(): CreatorPK.Verify() fails for an invalid configured key.
Prepare ==
    /\ boot = "prepare"
    /\ \E pkValid \in BOOLEAN :
          /\ boot' = IF pkValid THEN "init" ELSE "failed"
          /\ bootErr' = IF pkValid THEN "none" ELSE "InvalidKey"
    /\ ri' = 1
    /\ UNCHANGED <<pkg, pageVars, hookErr, chain, state, engineVars, injVars, readVars, hooked, bootLen,
                   committed, closeRet, raced>>

\* InitState going on with the next transaction after a failing one.
InitStateStepSkip ==
    /\ boot = "init"
    /\ ri < ChainLen(chain)
    /\ LET r == TxChecker(chain, state, TxOfSeq(chain, ri))
       IN  state' = IF r.err = "ok" THEN r.st ELSE state
    /\ ri' = ri + 1
    /\ UNCHANGED <<pkg, pageVars, hookErr, chain, engineVars, boot, bootErr, injVars, readVars, hooked, bootLen,
                   committed, closeRet, raced>>

\* One iteration of InitState's loop: fetch the transaction of sequence i,
\* run the checker on it, return its error or go on with i+1.
InitStateStep ==
    /\ boot = "init"
    /\ ri < ChainLen(chain)
    /\ LET r == TxChecker(chain, state, TxOfSeq(chain, ri))
       IN  IF ~HasSeq(chain, ri) \/ r.err # "ok"
           THEN /\ boot' = "failed"
                /\ bootErr' = IF HasSeq(chain, ri) THEN r.err ELSE "NotFound"
                /\ UNCHANGED <<state, ri>>
           ELSE /\ state' = r.st
                /\ ri' = ri + 1
                /\ UNCHANGED <<boot, bootErr>>
    /\ UNCHANGED <<pkg, pageVars, hookErr, chain, engineVars, injVars, readVars, hooked, bootLen,
                   committed, closeRet, raced>>

\* InitState returned nil: start the service goroutine and return the engine.
StartService ==
    /\ boot = "init"
    /\ ~(ri < ChainLen(chain))
    /\ boot' = "up"
    /\ svc' = "wait"
    /\ bootLen' = Len(chain)
    /\ committed' = <<chain, state>>
    /\ UNCHANGED <<pkg, pageVars, hookErr, chain, state, txChan, mux, quit, svcTx, ri, bootErr, injVars,
                   readVars, hooked, closeRet, raced>>

(***************************************************************************)
(* InjectTx                                                                *)
(***************************************************************************)
InFlight == {w \in Injectors : ipc[w] # "idle"}

\* The hashes a caller can know: of logged and projected transactions, and
\* one hash of no transaction.
KnownHashes ==
    {Hash(chain[i]) : i \in 1..Len(chain)}
      \cup {state.kitties[k].Unspent : k \in {j \in Kitties : state.kitties[j].ok}}
      \cup {UnknownHash}

\* The transactions a caller submits: every well-formed one over the known
\* hashes, and per kitty one whose claimed hash is not its content hash.
Candidates(ks) ==
    {MkTx(k, in, out, sig, TRUE) :
        k \in ks, in \in {EmptyTxHash} \cup KnownHashes,
        out \in Addresses, sig \in Keys}
      \cup {MkTx(k, EmptyTxHash, AddressOf(CreatorPK), CreatorPK, FALSE) : k \in ks}

\* Both pending calls are transfers that spend the unspent creation of the
\* same kitty, and each would verify on its own.
Racing(t1, t2) ==
    LET u == GetKittyUnspentTx(state, t1.KittyID)
        prev == TxOfHash(chain, u.Unspent)
    IN  /\ t1 # t2
        /\ t1.KittyID = t2.KittyID
        /\ u.ok /\ prev # NoTx
        /\ prev.In = EmptyTxHash
        /\ \E i \in (bootLen + 1)..Len(chain) : chain[i] = prev
        /\ mux.writer = "none"
        /\ Verify(t1, prev, CreatorPK) = "ok"
        /\ Verify(t2, prev, CreatorPK) = "ok"

\* A caller invokes InjectTx(tx), tx a transaction of a kitty of ks, on the
\* engine NewBlockChain returned.
InjectCall(w, ks) ==
    /\ Alive /\ boot = "up"
    /\ ipc[w] = "idle"
    /\ Len(chain) + Cardinality(InFlight) < MaxChain
    /\ \E tx \in Candidates(ks) :
          /\ itx' = [itx EXCEPT ![w] = tx]
          /\ raced' = IF \E v \in Injectors \ {w} :
                            ipc[v] = "lock" /\ Racing(itx[v], tx)
                      THEN [h |-> tx.In, outs |-> <<>>,
                            txs |-> {tx} \cup {itx[v] : v \in Injectors \ {w}}]
                      ELSE NoRace
    /\ ipc' = [ipc EXCEPT ![w] = "lock"]
    /\ ires' = [ires EXCEPT ![w] = "pending"]
    /\ UNCHANGED <<pkg, pageVars, hookErr, chain, state, engineVars, boot, ri, bootErr, iun, readVars, hooked, bootLen,
                   committed, closeRet>>

\* InjectTx without the exclusive lock: the caller goes on at once.
InjectLockMissing(w) ==
    /\ Alive
    /\ ipc[w] = "lock"
    /\ mux' = [mux EXCEPT !.writer = w]
    /\ ipc' = [ipc EXCEPT ![w] = "verify"]
    /\ UNCHANGED <<pkg, pageVars, hookErr, chain, state, txChan, quit, svc, svcTx, boot, ri, bootErr, itx, ires, iun,
                   readVars, hooked, bootLen, committed, closeRet, raced>>

\* bc.mux.Lock()
InjectLock(w) ==
    /\ Alive
    /\ ipc[w] = "lock"
    /\ mux = NoLock
    /\ mux' = [mux EXCEPT !.writer = w]
    /\ ipc' = [ipc EXCEPT ![w] = "verify"]
    /\ UNCHANGED <<pkg, pageVars, hookErr, chain, state, txChan, quit, svc, svcTx, boot, ri, bootErr, itx, ires, iun,
                   readVars, hooked, bootLen, committed, closeRet, raced>>

\* The checker dropping the error of tx.Verify.
InjectVerifyIgnoreErr(w) ==
    /\ Alive
    /\ ipc[w] = "verify"
    /\ ipc' = [ipc EXCEPT ![w] = "apply"]
    /\ iun' = [iun EXCEPT ![w] = CheckVerify(chain, state, itx[w]).unspent]
    /\ UNCHANGED <<pkg, pageVars, hookErr, chain, state, engineVars, boot, ri, bootErr, itx, ires, readVars, hooked,
                   bootLen, committed, closeRet, raced>>

\* ChainDB.AddTx runs the checker on the candidate before the physical
\* append; a checker error is the error AddTx and InjectTx return.  First the
\* checker's lookup of the unspent transaction and tx.Verify ...
InjectVerify(w) ==
    /\ Alive
    /\ ipc[w] = "verify"
    /\ LET v == CheckVerify(chain, state, itx[w])
       IN  IF v.err = "ok"
           THEN /\ ipc' = [ipc EXCEPT ![w] = "apply"]
                /\ iun' = [iun EXCEPT ![w] = v.unspent]
                /\ UNCHANGED ires
           ELSE /\ ipc' = [ipc EXCEPT ![w] = "unlock"]
                /\ ires' = [ires EXCEPT ![w] = v.err]
                /\ UNCHANGED iun
    /\ UNCHANGED <<pkg, pageVars, hookErr, chain, state, engineVars, boot, ri, bootErr, itx, readVars, hooked, bootLen,
                   committed, closeRet, raced>>

\* ... then the checker's AddKitty or MoveKitty on the projection.
InjectApply(w) ==
    /\ Alive
    /\ ipc[w] = "apply"
    /\ LET r == CheckApply(state, itx[w], iun[w])
       IN  /\ state' = r.st
           /\ IF r.err = "ok"
              THEN /\ ipc' = [ipc EXCEPT ![w] = "append"]
                   /\ UNCHANGED ires
              ELSE /\ ipc' = [ipc EXCEPT ![w] = "unlock"]
                   /\ ires' = [ires EXCEPT ![w] = r.err]
    /\ UNCHANGED <<pkg, pageVars, hookErr, chain, engineVars, boot, ri, bootErr, itx, iun, readVars, hooked, bootLen,
                   committed, closeRet, raced>>

\* ChainDB.AddTx, after the checker: the physical append, which the store may
\* fail, and on success the notification on TxChan.
InjectAppend(w) ==
    /\ Alive
    /\ ipc[w] = "append"
    /\ \E stored \in BOOLEAN :
          IF stored
          THEN /\ chain' = Append(chain, itx[w])
               /\ txChan' = Append(txChan, itx[w])
               /\ ires' = [ires EXCEPT ![w] = "ok"]
          ELSE /\ ires' = [ires EXCEPT ![w] = "AppendError"]
               /\ UNCHANGED <<chain, txChan>>
    /\ ipc' = [ipc EXCEPT ![w] = "unlock"]
    /\ UNCHANGED <<pkg, pageVars, hookErr, state, mux, quit, svc, svcTx, boot, ri, bootErr, itx, iun, readVars, hooked,
                   bootLen, committed, closeRet, raced>>

\* The deferred bc.mux.Unlock() and the return of InjectTx.
InjectUnlock(w) ==
    /\ Alive
    /\ ipc[w] = "unlock"
    /\ mux' = [mux EXCEPT !.writer = "none"]
    /\ ipc' = [ipc EXCEPT ![w] = "idle"]
    /\ itx' = [itx EXCEPT ![w] = NoTx]
    /\ ires' = [ires EXCEPT ![w] = "none"]
    /\ iun' = [iun EXCEPT ![w] = NoTx]
    /\ committed' = <<chain, state>>
    /\ raced' = IF raced = NoRace THEN raced
                ELSE [raced EXCEPT !.outs = Append(@, ires[w])]
    /\ UNCHANGED <<pkg, pageVars, hookErr, chain, state, txChan, quit, svc, svcTx, boot, ri, bootErr,
                   readVars, hooked, bootLen, closeRet>>

(***************************************************************************)
(* Read accessors: GetHeadTx, GetTxOfHash, GetTxOfSeq, GetKittyState and   *)
(* GetAddressState.  Each does RLock, one store read, deferred RUnlock.    *)
(***************************************************************************)
ReadCalls ==
    {<<"GetHeadTx", 0>>}
      \cup {<<"GetTxOfHash", h>> : h \in {Hash(chain[i]) : i \in 1..Len(chain)} \cup {UnknownHash}}
      \cup {<<"GetTxOfSeq", n>> : n \in 0..Len(chain)}
      \cup {<<"GetKittyState", k>> : k \in Kitties}
      \cup {<<"GetAddressState", a>> : a \in Addresses}

\* What the delegated store call returns on the stores (ch, st).
ReadOf(call, ch, st) ==
    CASE call[1] = "GetHeadTx" -> ChainHead(ch)
      [] call[1] = "GetTxOfHash" -> TxOfHash(ch, call[2])
      [] call[1] = "GetTxOfSeq" -> IF HasSeq(ch, call[2]) THEN TxOfSeq(ch, call[2]) ELSE NoTx
      [] call[1] = "GetKittyState" -> st.kitties[call[2]]
      [] call[1] = "GetAddressState" -> st.addresses[call[2]]

\* An accessor that does not wait for the writer.
ReadLockNoWait(r) ==
    /\ Alive /\ boot = "up"
    /\ rpc[r] = "idle"
    /\ \E call \in ReadCalls : racc' = [racc EXCEPT ![r] = call]
    /\ mux' = [mux EXCEPT !.readers = @ + 1]
    /\ rpc' = [rpc EXCEPT ![r] = "read"]
    /\ UNCHANGED <<pkg, pageVars, hookErr, chain, state, txChan, quit, svc, svcTx, boot, ri, bootErr, injVars, rval,
                   hooked, bootLen, committed, closeRet, raced>>

\* bc.mux.RLock() of an accessor call.
ReadLock(r) ==
    /\ Alive /\ boot = "up"
    /\ rpc[r] = "idle"
    /\ mux.writer = "none"
    /\ \E call \in ReadCalls : racc' = [racc EXCEPT ![r] = call]
    /\ mux' = [mux EXCEPT !.readers = @ + 1]
    /\ rpc' = [rpc EXCEPT ![r] = "read"]
    /\ UNCHANGED <<pkg, pageVars, hookErr, chain, state, txChan, quit, svc, svcTx, boot, ri, bootErr, injVars, rval,
                   hooked, bootLen, committed, closeRet, raced>>

\* The delegated read of the chain or the state.
ReadStore(r) ==
    /\ Alive
    /\ rpc[r] = "read"
    /\ rval' = [rval EXCEPT ![r] = <<ReadOf(racc[r], chain, state)>>]
    /\ rpc' = [rpc EXCEPT ![r] = "runlock"]
    /\ UNCHANGED <<pkg, pageVars, hookErr, chain, state, engineVars, boot, ri, bootErr, injVars, racc, hooked,
                   bootLen, committed, closeRet, raced>>

\* The deferred bc.mux.RUnlock() and the return of the accessor.
ReadUnlock(r) ==
    /\ Alive
    /\ rpc[r] = "runlock"
    /\ mux' = [mux EXCEPT !.readers = @ - 1]
    /\ rpc' = [rpc EXCEPT ![r] = "idle"]
    /\ racc' = [racc EXCEPT ![r] = <<>>]
    /\ rval' = [rval EXCEPT ![r] = <<>>]
    /\ UNCHANGED <<pkg, pageVars, hookErr, chain, state, txChan, quit, svc, svcTx, boot, ri, bootErr, injVars,
                   hooked, bootLen, committed, closeRet, raced>>

(***************************************************************************)
(* service and Close                                                       *)
(***************************************************************************)
\* The service taking the engine's write lock to receive and run the hook.
ServiceRecvLocked ==
    /\ svc = "wait"
    /\ txChan # <<>>
    /\ mux = NoLock
    /\ mux' = [mux EXCEPT !.writer = "service"]
    /\ svcTx' = txChan[1]
    /\ txChan' = Tail(txChan)
    /\ hooked' = Append(hooked, txChan[1])
    /\ svc' = "hook"
    /\ UNCHANGED <<pkg, pageVars, hookErr, chain, state, quit, boot, ri, bootErr, injVars, readVars,
                   bootLen, committed, closeRet, raced>>

\* The service reading the notification without taking it off the channel.
ServiceRecvPeek ==
    /\ svc = "wait"
    /\ txChan # <<>>
    /\ svcTx' = txChan[1]
    /\ hooked' = Append(hooked, txChan[1])
    /\ svc' = "hook"
    /\ UNCHANGED <<pkg, pageVars, hookErr, chain, state, txChan, mux, quit, boot, ri, bootErr, injVars, readVars,
                   bootLen, committed, closeRet, raced>>

\* select case tx := <-bc.chain.TxChan(): the hook is invoked on tx.
ServiceRecv ==
    /\ svc = "wait"
    /\ txChan # <<>>
    /\ svcTx' = txChan[1]
    /\ txChan' = Tail(txChan)
    /\ hooked' = Append(hooked, txChan[1])
    /\ svc' = "hook"
    /\ UNCHANGED <<pkg, pageVars, hookErr, chain, state, mux, quit, boot, ri, bootErr, injVars, readVars, bootLen,
                   committed, closeRet, raced>>

\* select case <-bc.quit: return (and the deferred wg.Done()).  With both
\* cases ready, select takes either.
ServiceQuit ==
    /\ svc = "wait"
    /\ quit
    /\ svc' = "exited"
    /\ UNCHANGED <<pkg, pageVars, hookErr, chain, state, txChan, mux, quit, svcTx, boot, ri, bootErr, injVars,
                   readVars, hooked, bootLen, committed, closeRet, raced>>

\* A dispatcher that logs the hook's error and goes on to the next
\* notification.
HookReturnIgnoreErr ==
    /\ svc = "hook"
    /\ \E failed \in BOOLEAN : hookErr' = (hookErr \/ failed)
    /\ svc' = "wait"
    /\ svcTx' = NoTx
    /\ UNCHANGED <<pkg, pageVars, chain, state, txChan, mux, quit, boot, ri, bootErr, injVars, readVars,
                   hooked, bootLen, committed, closeRet, raced>>

\* bc.c.TxAction(tx) returns: nil, or an error and the goroutine panics,
\* which terminates the process.
HookReturn ==
    /\ svc = "hook"
    /\ \E failed \in BOOLEAN :
          /\ svc' = IF failed THEN "panicked" ELSE "wait"
          /\ hookErr' = (hookErr \/ failed)
    /\ svcTx' = NoTx
    /\ UNCHANGED <<pkg, pageVars, chain, state, txChan, mux, quit, boot, ri, bootErr, injVars, readVars,
                   hooked, bootLen, committed, closeRet, raced>>

\* The InjectTx successes of this engine that have returned to their caller.
ReturnedOk ==
    Len(chain) - bootLen
      - Cardinality({w \in Injectors : ipc[w] = "unlock" /\ ires[w] = "ok"})

\* Close(): close(bc.quit), and return.
Close ==
    /\ Alive /\ boot = "up"
    /\ ~quit
    /\ quit' = TRUE
    /\ closeRet' = ReturnedOk
    /\ UNCHANGED <<pkg, pageVars, hookErr, chain, state, txChan, mux, svc, svcTx, boot, ri, bootErr, injVars,
                   readVars, hooked, bootLen, committed, raced>>

\* The process ends (startup failed, a panic, an exit or a kill at any point)
\* and is started again: NewBlockChain on the persisted chain with an empty
\* projection.
Restart ==
    /\ boot # "prepare"
    /\ state' = EmptyState
    /\ txChan' = <<>>
    /\ mux' = NoLock
    /\ quit' = FALSE
    /\ boot' = "prepare"
    /\ ri' = 1
    /\ bootErr' = "none"
    /\ svc' = "none"
    /\ svcTx' = NoTx
    /\ ipc' = [w \in Injectors |-> "idle"]
    /\ itx' = [w \in Injectors |-> NoTx]
    /\ ires' = [w \in Injectors |-> "none"]
    /\ iun' = [w \in Injectors |-> NoTx]
    /\ rpc' = [r \in Readers |-> "idle"]
    /\ racc' = [r \in Readers |-> <<>>]
    /\ rval' = [r \in Readers |-> <<>>]
    /\ hooked' = <<>>
    /\ bootLen' = Len(chain)
    /\ committed' = <<chain, EmptyState>>
    /\ closeRet' = 0
    /\ raced' = NoRace
    /\ hookErr' = FALSE
    /\ ppc' = "idle"
    /\ parg' = <<>>
    /\ ptxs' = <<>>
    /\ pres' = <<>>
    /\ UNCHANGED <<chain, pkg>>

\* The ledger over restarts: one caller injecting transactions of both
\* kitties, the process restarting and replaying the log.
NextLedger ==
    \/ Prepare
    \/ InitStateStep
    \/ StartService
    \/ InjectCall("w1", Kitties)
    \/ InjectLock("w1")
    \/ InjectVerify("w1")
    \/ InjectApply("w1")
    \/ InjectAppend("w1")
    \/ InjectUnlock("w1")
    \/ Restart

SpecLedger == Init /\ [][NextLedger]_vars

\* Two concurrent callers of InjectTx on one kitty.
NextRace ==
    \/ Prepare
    \/ StartService
    \/ \E w \in Injectors : InjectCall(w, {"k1"})
    \/ \E w \in Injectors : InjectLock(w)
    \/ \E w \in Injectors : InjectVerify(w)
    \/ \E w \in Injectors : InjectApply(w)
    \/ \E w \in Injectors : InjectAppend(w)
    \/ \E w \in Injectors : InjectUnlock(w)

SpecRace == Init /\ [][NextRace]_vars

\* Readers against a writer: one caller of InjectTx, two of the accessors.
NextRW ==
    \/ Prepare
    \/ StartService
    \/ InjectCall("w1", {"k1"})
    \/ InjectLock("w1")
    \/ InjectVerify("w1")
    \/ InjectApply("w1")
    \/ InjectAppend("w1")
    \/ InjectUnlock("w1")
    \/ \E r \in Readers : ReadLock(r)
    \/ \E r \in Readers : ReadStore(r)
    \/ \E r \in Readers : ReadUnlock(r)

SpecRW == Init /\ [][NextRW]_vars

\* Post-commit dispatch: one caller injecting, the service goroutine, Close.
NextDispatch ==
    \/ Prepare
    \/ StartService
    \/ InjectCall("w1", {"k1"})
    \/ InjectLock("w1")
    \/ InjectVerify("w1")
    \/ InjectApply("w1")
    \/ InjectAppend("w1")
    \/ InjectUnlock("w1")
    \/ ServiceRecv
    \/ ServiceQuit
    \/ HookReturn
    \/ Close

SpecDispatch == Init /\ [][NextDispatch]_vars

\* The goroutine scheduler runs the service goroutine when it can take a
\* step, and a caller that holds or can take the lock runs to its return.
DispatchFairness ==
    /\ WF_vars(ServiceRecv)
    /\ WF_vars(HookReturn)
    /\ WF_vars(InjectLock("w1") \/ InjectVerify("w1") \/ InjectApply("w1") \/ InjectAppend("w1") \/ InjectUnlock("w1"))

SpecDispatchFair == SpecDispatch /\ DispatchFairness

(***************************************************************************)
(* Properties                                                              *)
(***************************************************************************)
RaceDone == raced # NoRace /\ Len(raced.outs) = 2
RaceStored == \A i \in 1..Len(raced.outs) : raced.outs[i] # "AppendError"

\* C1: when two concurrent InjectTx calls with different transfers that both
\* spend the unspent creation of one kitty have returned, and the store failed
\* neither physical append, exactly one returned success, the other
\* StaleReference, and the log holds exactly one of the two transfers.
DoubleSpendBarrier ==
    (RaceDone /\ RaceStored) =>
        /\ {raced.outs[1], raced.outs[2]} = {"ok", "StaleReference"}
        /\ Cardinality({i \in 1..Len(chain) : chain[i] \in raced.txs}) = 1

DoubleSpendRaced ==
    /\ RaceDone
    /\ raced.outs = <<"ok", "StaleReference">>
    /\ Cardinality(raced.txs) = 2

\* The projection that successful InjectTx calls with the transactions of
\* log ch, in order, build from the empty log and the empty projection.
RECURSIVE InjectAll(_, _, _)
InjectAll(ch, st, n) ==
    IF n > Len(ch) THEN [err |-> "ok", st |-> st]
    ELSE LET r == TxChecker(SubSeq(ch, 1, n - 1), st, ch[n])
         IN  IF r.err # "ok" THEN [err |-> r.err, st |-> st]
             ELSE InjectAll(ch, r.st, n + 1)

LastOf(k) ==
    LET idx == {i \in 1..Len(chain) : chain[i].KittyID = k}
    IN  IF idx = {} THEN 0 ELSE CHOOSE i \in idx : \A j \in idx : j <= i

\* C2: whenever the engine is up and no InjectTx holds the write lock, each
\* kitty's projection record is the hash and the output of the last logged
\* transaction of that kitty, and a kitty with no logged transaction has none.
LogProjectionConsistent ==
    (boot = "up" /\ mux.writer = "none") =>
        \A k \in Kitties :
            IF LastOf(k) = 0 THEN ~state.kitties[k].ok
            ELSE state.kitties[k] = [ok |-> TRUE,
                                     Unspent |-> Hash(chain[LastOf(k)]),
                                     Address |-> chain[LastOf(k)].Out]

\* C3: every step that appends to the chain log appends the transaction of an
\* InjectTx call, and the checker accepts that transaction on the chain and
\* projection as they were when the call took the lock.
NoUnverifiedAppend ==
    [][chain' # chain =>
          \E w \in Injectors :
              /\ ipc[w] = "append"
              /\ chain' = Append(chain, itx[w])
              /\ TxChecker(committed[1], committed[2], itx[w]).err = "ok"]_vars

TransferAppended ==
    \E i \in 1..Len(chain) : chain[i].In # EmptyTxHash

\* C4: when InjectTx is about to return success for tx, the kitty's record
\* has owner tx.Out and unspent hash tx.Hash(), and for a transfer that hash
\* is not the unspent hash the kitty had before the call.
InjectPostState ==
    \A w \in Injectors :
        (ipc[w] = "unlock" /\ ires[w] = "ok") =>
            LET ks == ReadOf(<<"GetKittyState", itx[w].KittyID>>, chain, state)
            IN  /\ ks.ok
                /\ ks.Address = itx[w].Out
                /\ ks.Unspent = Hash(itx[w])
                /\ ~IsKittyGen(itx[w], CreatorPK) =>
                       /\ committed[2].kitties[itx[w].KittyID].ok
                       /\ ks.Unspent # committed[2].kitties[itx[w].KittyID].Unspent

TransferReturnsOk ==
    \E w \in Injectors :
        /\ ipc[w] = "unlock" /\ ires[w] = "ok"
        /\ ~IsKittyGen(itx[w], CreatorPK)
        /\ itx[w].Out # committed[2].kitties[itx[w].KittyID].Address

\* C5: for a log that sequential successful InjectTx calls build from the
\* empty log, InitState on an empty projection returns no error and ends
\* with the projection those calls built.
ReplayEquivalence ==
    (bootLen = Len(chain) /\ InjectAll(chain, EmptyState, 1).err = "ok") =>
        /\ ~(boot = "failed" /\ bootErr # "InvalidKey")
        /\ (boot = "init" /\ ~(ri < ChainLen(chain))) =>
               state = InjectAll(chain, EmptyState, 1).st

\* C6: NewBlockChain returns an engine only if InitState's whole replay
\* passed; while it replays and when it has failed, the projection is that of
\* the transactions before index i, the failing transaction is the one at i,
\* its error is the error returned, and after a failure no service goroutine
\* runs and no call is served.
ReplayFailureAborts ==
    /\ boot \in {"init", "failed"} /\ bootErr # "InvalidKey" =>
           InitStateFrom(chain, EmptyState, 1, ri) = [err |-> "ok", st |-> state, i |-> ri]
    /\ boot = "failed" /\ bootErr # "InvalidKey" =>
           /\ ri < ChainLen(chain)
           /\ bootErr # "ok"
           /\ TxChecker(chain, state, TxOfSeq(chain, ri)).err = bootErr
    /\ boot = "failed" =>
           /\ svc = "none" /\ txChan = <<>> /\ hooked = <<>> /\ mux = NoLock
           /\ \A w \in Injectors : ipc[w] = "idle"
           /\ \A r \in Readers : rpc[r] = "idle"
    /\ boot = "up" =>
           InitStateFrom(SubSeq(chain, 1, bootLen), EmptyState, 1, bootLen).err = "ok"

ReplayFailedMidLog ==
    /\ boot = "failed"
    /\ bootErr \notin {"none", "InvalidKey"}
    /\ ri + 1 < ChainLen(chain)

InCritical(w) == ipc[w] \in {"verify", "apply", "append", "unlock"}

\* C7: while a read accessor holds the shared lock no InjectTx is between
\* taking and releasing the exclusive lock, and conversely; the chain and the
\* projection the accessor reads are those left by the last completed
\* InjectTx (or by startup), and so is the value it returns.
ReaderWriterExclusion ==
    /\ \A r \in Readers :
           rpc[r] \in {"read", "runlock"} =>
               /\ mux.writer = "none" /\ mux.readers > 0
               /\ \A w \in Injectors : ~InCritical(w)
               /\ <<chain, state>> = committed
               /\ rpc[r] = "runlock" =>
                      rval[r] = <<ReadOf(racc[r], committed[1], committed[2])>>
    /\ \A w \in Injectors :
           InCritical(w) => mux = [writer |-> w, readers |-> 0]

ReadersShareWhileWriterWaits ==
    /\ rpc["r1"] = "runlock" /\ rpc["r2"] = "read"
    /\ ipc["w1"] = "lock"
    /\ racc["r1"][1] = "GetKittyState" /\ rval["r1"][1].ok
    /\ Len(chain) >= 2

\* C8: once Close has returned the service goroutine has exited (or the
\* process is gone): no TxAction hook starts or is still running.
CloseWaitsForService ==
    quit => svc \in {"exited", "panicked"}

\* C9: when the service goroutine has exited, TxAction has been invoked for
\* every transaction whose InjectTx returned success before Close was called.
NoNotificationLost ==
    svc = "exited" => Len(hooked) >= closeRet

Appended == SubSeq(chain, bootLen + 1, Len(chain))

\* C10: the TxAction invocations are, in order, a prefix of the transactions
\* InjectTx appended (each once, none rejected, append order); and while Close
\* is not called and the process lives, the n-th appended transaction is
\* eventually handed to TxAction.
DispatchCompleteOrdered ==
    /\ [](/\ Len(hooked) <= Len(Appended)
          /\ hooked = SubSeq(Appended, 1, Len(hooked))
          /\ txChan = SubSeq(Appended, Len(hooked) + 1, Len(Appended)))
    /\ \A n \in 1..MaxChain :
           (Len(Appended) >= n) ~> (Len(hooked) >= n \/ quit \/ svc = "panicked")

TwoDispatchedOneRejected ==
    /\ Len(hooked) = 2 /\ hooked[1] # hooked[2]
    /\ ~quit
    /\ ipc["w1"] = "unlock" /\ ires["w1"] \notin {"ok", "AppendError"}


(***************************************************************************)
(* A hook that may never return: one caller injecting, one reading, the    *)
(* service goroutine.  The callers are scheduled fairly (a blocked Lock or *)
(* RLock of sync.RWMutex is granted once the lock is released); nothing is *)
(* assumed of the hook.                                                    *)
(***************************************************************************)
NextSlowHook ==
    \/ Prepare
    \/ StartService
    \/ InjectCall("w1", {"k1"})
    \/ InjectLock("w1")
    \/ InjectVerify("w1")
    \/ InjectApply("w1")
    \/ InjectAppend("w1")
    \/ InjectUnlock("w1")
    \/ ReadLock("r1")
    \/ ReadStore("r1")
    \/ ReadUnlock("r1")
    \/ ServiceRecv
    \/ HookReturn

SlowHookFairness ==
    /\ SF_vars(InjectLock("w1"))
    /\ WF_vars(InjectVerify("w1") \/ InjectApply("w1") \/ InjectAppend("w1") \/ InjectUnlock("w1"))
    /\ WF_vars(ReadStore("r1") \/ ReadUnlock("r1"))

SpecSlowHook == Init /\ [][NextSlowHook]_vars /\ SlowHookFairness

\* C11: no step of the service goroutine takes or releases the engine's lock,
\* and, whether or not a running TxAction hook ever returns, an InjectTx call
\* and an accessor call in progress run to their return and leave the lock
\* (unless a hook error ends the process).
SlowHookDoesNotBlock ==
    /\ [][(svc' # svc \/ svcTx' # svcTx \/ hooked' # hooked) => mux' = mux]_vars
    /\ (ipc["w1"] # "idle") ~> (ipc["w1"] = "idle" \/ svc = "panicked")
    /\ (rpc["r1"] # "idle") ~> (rpc["r1"] = "idle" \/ svc = "panicked")

InjectReturnsDuringHook ==
    /\ svc = "hook"
    /\ ipc["w1"] = "unlock" /\ ires["w1"] = "ok"
    /\ Len(hooked) = 1 /\ Len(chain) = 2
\* C12: a TxAction error is fatal.  Once a hook invocation has returned an
\* error the service goroutine is in its panicked state, and from that state
\* the engine takes no step at all: no further hook is invoked, the failed
\* notification is not retried, and no caller is served.
HookErrorIsFatal ==
    /\ [][hookErr' => svc' = "panicked"]_vars
    /\ [][svc = "panicked" => (hookErr /\ UNCHANGED vars)]_vars

\* A hook failed with a second committed transaction still to dispatch.
HookFailedWithPending ==
    /\ svc = "panicked" /\ hookErr
    /\ Len(hooked) = 1
    /\ Len(txChan) = 1
    /\ Len(chain) = 2
(***************************************************************************)
(* Pagination: GetTransactionPage                                          *)
(***************************************************************************)
\* The longest log, the highest page number and the largest page size of the
\* pagination runs.
MaxLog == 25
MaxPage == 3
MaxPer == 10

\* A uint64 is eight limbs of eight bits, least significant first, so that
\* the product of page size and page number keeps its width of 64 bits.
LimbBase == 256
LimbCount == 8

U64(n) ==
    [i \in 1..LimbCount |->
        IF i = 1 THEN n % LimbBase
        ELSE IF i = 2 THEN (n \div LimbBase) % LimbBase
        ELSE IF i = 3 THEN (n \div (LimbBase * LimbBase)) % LimbBase
        ELSE 0]

\* The values below 2^24, and their number.
IsSmall(u) == \A i \in 4..LimbCount : u[i] = 0
Val(u) == u[1] + LimbBase * u[2] + LimbBase * LimbBase * u[3]

\* 2^63
Pow63 == [i \in 1..LimbCount |-> IF i = LimbCount THEN LimbBase \div 2 ELSE 0]

RECURSIVE MulCol(_, _, _, _)
MulCol(a, b, k, i) ==
    IF i > k THEN 0 ELSE a[i] * b[k + 1 - i] + MulCol(a, b, k, i + 1)

RECURSIVE MulLimbs(_, _, _, _)
MulLimbs(a, b, k, carry) ==
    IF k > LimbCount THEN <<>>
    ELSE LET t == MulCol(a, b, k, 1) + carry
         IN  <<t % LimbBase>> \o MulLimbs(a, b, k + 1, t \div LimbBase)

\* perPage*currentPage in uint64: the product modulo 2^64.
Mul64(a, b) == MulLimbs(a, b, 1, 0)

Min(a, b) == IF a < b THEN a ELSE b

\* ChainDB.GetTxsOfSeqRange: the transactions of sequence startSeq up to
\* startSeq + pageSize - 1 that the log has, in sequence order.
GetTxsOfSeqRange(ch, startSeq, pageSize) ==
    IF ~IsSmall(startSeq) \/ ~(Val(startSeq) < Len(ch)) THEN <<>>
    ELSE SubSeq(ch, Val(startSeq) + 1,
                Min(Len(ch), Val(startSeq) + Val(pageSize)))

\* A page count that drops the last, partial page.
totalPageCountFloor(len, pageSize) == len \div pageSize

\* totalPageCount(len, pageSize), for a page size that is not zero.
totalPageCount(len, pageSize) ==
    IF len % pageSize = 0
    THEN len \div pageSize
    ELSE (len \div pageSize) + 1

PageNumbers == {U64(n) : n \in 0..MaxPage} \cup {Pow63}
PageSizes == {U64(n) : n \in 0..MaxPer}

\* GetTransactionPage(currentPage, perPage) is called.  It takes no lock.
PageCall(cs, ps) ==
    /\ boot = "up" /\ Alive
    /\ ppc = "idle"
    /\ \E c \in cs, p \in ps : parg' = <<c, p>>
    /\ ppc' = "range"
    /\ UNCHANGED <<pkg, hookErr, chain, state, engineVars, boot, ri, bootErr, injVars,
                   readVars, hooked, bootLen, committed, closeRet, raced, ptxs, pres>>

\* transactions, err := bc.chain.GetTxsOfSeqRange(perPage*currentPage, perPage)
\* The store's read may fail, and its error is returned with an empty value.
PageRange ==
    /\ Alive
    /\ ppc = "range"
    /\ \E failed \in BOOLEAN :
          IF failed
          THEN /\ pres' = [panic |-> FALSE, err |-> "RangeError",
                           TotalPageCount |-> 0, Transactions |-> <<>>]
               /\ ppc' = "ret"
               /\ UNCHANGED ptxs
          ELSE /\ ptxs' = GetTxsOfSeqRange(chain, Mul64(parg[2], parg[1]), parg[2])
               /\ ppc' = "count"
               /\ UNCHANGED pres
    /\ UNCHANGED <<pkg, hookErr, chain, state, engineVars, boot, ri, bootErr, injVars,
                   readVars, hooked, bootLen, committed, closeRet, raced, parg>>

\* cLen := bc.chain.Len(), and the returned value is built.  With perPage
\* zero, len%pageSize in totalPageCount is an integer division by zero: a
\* run-time panic in the caller's goroutine.
PageCount ==
    /\ Alive
    /\ ppc = "count"
    /\ pres' = IF parg[2] = U64(0)
               THEN [panic |-> TRUE, err |-> "none",
                     TotalPageCount |-> 0, Transactions |-> <<>>]
               ELSE [panic |-> FALSE, err |-> "none",
                     TotalPageCount |-> totalPageCount(ChainLen(chain), Val(parg[2])),
                     Transactions |-> ptxs]
    /\ ppc' = "ret"
    /\ UNCHANGED <<pkg, hookErr, chain, state, engineVars, boot, ri, bootErr, injVars,
                   readVars, hooked, bootLen, committed, closeRet, raced, parg, ptxs>>

\* The call is over: the caller has the value, or the panic.
PageReturn ==
    /\ ppc = "ret"
    /\ ppc' = "idle"
    /\ parg' = <<>>
    /\ ptxs' = <<>>
    /\ pres' = <<>>
    /\ UNCHANGED <<pkg, hookErr, chain, state, engineVars, boot, ri, bootErr, injVars,
                   readVars, hooked, bootLen, committed, closeRet, raced>>

\* The log after n successful InjectTx calls: k1 is created, then
\* transferred n - 1 times.
RECURSIVE LogOfLen(_)
LogOfLen(n) ==
    IF n = 0 THEN <<>>
    ELSE LET ch == LogOfLen(n - 1)
         IN  Append(ch, MkTx("k1", IF n = 1 THEN EmptyTxHash ELSE Hash(ch[n - 1]),
                             AddressOf(CreatorPK), CreatorPK, TRUE))

\* An engine that has committed and dispatched n transactions, at rest.
InitPage ==
    /\ \E n \in 0..MaxLog :
          /\ chain = LogOfLen(n)
          /\ state = InjectAll(chain, EmptyState, 1).st
    /\ txChan = <<>>
    /\ mux = NoLock
    /\ quit = FALSE
    /\ boot = "up"
    /\ ri = 1
    /\ bootErr = "none"
    /\ svc = "wait"
    /\ svcTx = NoTx
    /\ ipc = [w \in Injectors |-> "idle"]
    /\ itx = [w \in Injectors |-> NoTx]
    /\ ires = [w \in Injectors |-> "none"]
    /\ iun = [w \in Injectors |-> NoTx]
    /\ rpc = [r \in Readers |-> "idle"]
    /\ racc = [r \in Readers |-> <<>>]
    /\ rval = [r \in Readers |-> <<>>]
    /\ hooked = chain
    /\ bootLen = 0
    /\ committed = <<chain, state>>
    /\ closeRet = 0
    /\ raced = NoRace
    /\ pkg = "iko"
    /\ hookErr = FALSE
    /\ ppc = "idle"
    /\ parg = <<>>
    /\ ptxs = <<>>
    /\ pres = <<>>

\* One caller paging through a log that no one is appending to.
NextPage ==
    \/ PageCall(PageNumbers, PageSizes)
    \/ PageRange
    \/ PageCount
    \/ PageReturn

SpecPage == InitPage /\ [][NextPage]_vars

\* One caller asking for the first page while another injects.
NextPageRace ==
    \/ Prepare
    \/ StartService
    \/ InjectCall("w1", {"k1"})
    \/ InjectLock("w1")
    \/ InjectVerify("w1")
    \/ InjectApply("w1")
    \/ InjectAppend("w1")
    \/ InjectUnlock("w1")
    \/ PageCall({U64(0), U64(1)}, {U64(1), U64(2)})
    \/ PageRange
    \/ PageCount
    \/ PageReturn

SpecPageRace == Init /\ [][NextPageRace]_vars

\* The call of the state has returned a value for a page size of at least 1.
PageReturned == ppc = "ret" /\ ~pres.panic /\ pres.err = "none"

\* C13: a call with perPage = 0 returns an input-validation error, and does
\* not panic, whatever the page number and the chain length.
ZeroPageSizeRejected ==
    (ppc = "ret" /\ parg[2] = U64(0))
        => (~pres.panic /\ pres.err = "InvalidPageSize")

\* C14: for a page size P >= 1 and a chain of length L the returned
\* TotalPageCount is the ceiling of L/P: the least n with n*P >= L.
PageCountIsCeiling ==
    PageReturned =>
        LET P == Val(parg[2])
            L == Len(chain)
            n == pres.TotalPageCount
        IN  /\ n * P >= L
            /\ n = 0 \/ (n - 1) * P < L
            /\ (L = 0) => (n = 0)
            /\ (L = 25 /\ P = 10) => (n = 3)

\* A chain of 25 transactions paged by 10 has returned its count.
PageCountOfPartialPage ==
    /\ PageReturned
    /\ Len(chain) = 25 /\ Val(parg[2]) = 10
    /\ pres.TotalPageCount = 3

\* The transactions whose sequence is in [C*P, C*P + P) and below the chain
\* length, C*P being the product of the two numbers.
PageOf(ch, C, P) ==
    IF ~IsSmall(C) THEN <<>>
    ELSE LET start == Val(C) * Val(P)
         IN  IF ~(start < Len(ch)) THEN <<>>
             ELSE SubSeq(ch, start + 1, Min(Len(ch), start + Val(P)))

\* C15: for a page size P >= 1 the returned transactions are those of
\* sequence C*P up to C*P + P - 1 that the chain has, in order; a page past
\* the end is short or empty, and C*P is not taken modulo 2^64.
PageIsRequestedRange ==
    PageReturned => pres.Transactions = PageOf(chain, parg[1], parg[2])

\* C19: the list and the page count of one call are of one chain length: some
\* length L the chain has had gives both the returned transactions and the
\* returned TotalPageCount.
PageSnapshotConsistent ==
    PageReturned =>
        \E L \in 0..Len(chain) :
            /\ pres.Transactions = PageOf(SubSeq(chain, 1, L), parg[1], parg[2])
            /\ pres.TotalPageCount * Val(parg[2]) >= L
            /\ pres.TotalPageCount = 0 \/ (pres.TotalPageCount - 1) * Val(parg[2]) < L
(***************************************************************************)
(* The order of the steps of one InjectTx                                  *)
(***************************************************************************)
\* C16: within one InjectTx the projection is modified only after the
\* physical append of the transaction has succeeded: a step of the call that
\* changes the projection finds the transaction in the log, and a call whose
\* append has failed leaves the projection as it was when the call began.
ApplyOnlyAfterAppend ==
    /\ [][\A w \in Injectors :
            (ipc[w] # "idle" /\ ipc'[w] # ipc[w] /\ state' # state)
                => \E i \in 1..Len(chain) : chain[i] = itx[w]]_vars
    /\ [](\A w \in Injectors :
            (ipc[w] = "unlock" /\ ires[w] = "AppendError")
                => state = committed[2])
(***************************************************************************)
(* Package kchain: one chain of transactions, each naming its predecessor  *)
(* in the chain, and a projection from kitty to owner address.  The        *)
(* BlockChain struct, Close, service and the accessors are as in iko.      *)
(***************************************************************************)
\* A kchain transaction: its sequence and the hash of the transaction before
\* it in the chain, the kitty, the addresses it moves it between, and the
\* key that signed it.
KMkTx(seq, prev, k, from, to, sig, wellformed) ==
    [Seq |-> seq, Prev |-> prev, KittyID |-> k, From |-> from, To |-> to,
     Sig |-> sig, wf |-> wellformed]

KHash(tx) == <<tx.Seq, tx.Prev, tx.KittyID, tx.From, tx.To, tx.Sig>>

\* No transaction: the nil *Transaction.
KNil == KMkTx(0, EmptyTxHash, "none", "none", "none", "none", FALSE)

\* tx.Verify(prev): "check hash, seq and sig of tx".  With a nil prev the
\* transaction has to be the first of a chain.
KVerify(tx, prev) ==
    IF ~tx.wf THEN "MalformedTransaction"
    ELSE IF prev = KNil /\ (tx.Seq # 0 \/ tx.Prev # EmptyTxHash)
    THEN "StaleReference"
    ELSE IF prev # KNil /\ (tx.Seq # prev.Seq + 1 \/ tx.Prev # KHash(prev))
    THEN "StaleReference"
    ELSE IF AddressOf(tx.Sig) # tx.From THEN "InvalidSignature"
    ELSE "ok"

\* tx.IsKittyGen(pk): the creator's address sends the kitty to itself.
KIsKittyGen(tx, pk) == tx.From = AddressOf(pk) /\ tx.To = tx.From

\* The kchain StateDB: the address of every kitty that exists.
KEmptyState == [k \in Kitties |-> "none"]

KAddKitty(st, k, to) ==
    IF st[k] # "none" THEN [err |-> "DuplicateAsset", st |-> st]
    ELSE [err |-> "ok", st |-> [st EXCEPT ![k] = to]]

KMoveKitty(st, k, from, to) ==
    IF st[k] # from THEN [err |-> "StaleOwnership", st |-> st]
    ELSE [err |-> "ok", st |-> [st EXCEPT ![k] = to]]

\* bc.chain.Head(): the last transaction, an error on an empty chain.
KChainHead(ch) == IF Len(ch) = 0 THEN KNil ELSE ch[Len(ch)]

\* The branch on IsKittyGen that InitState and InjectTx share.
KApply(st, tx) ==
    IF KIsKittyGen(tx, CreatorPK)
    THEN KAddKitty(st, tx.KittyID, tx.To)
    ELSE KMoveKitty(st, tx.KittyID, tx.From, tx.To)

\* NewBlockChain of kchain, up to InitState.
KInit ==
    /\ chain = <<>>
    /\ state = KEmptyState
    /\ txChan = <<>>
    /\ mux = NoLock
    /\ quit = FALSE
    /\ boot = "init"
    /\ ri = 1
    /\ bootErr = "none"
    /\ svc = "none"
    /\ svcTx = NoTx
    /\ ipc = [w \in Injectors |-> "idle"]
    /\ itx = [w \in Injectors |-> NoTx]
    /\ ires = [w \in Injectors |-> "none"]
    /\ iun = [w \in Injectors |-> NoTx]
    /\ rpc = [r \in Readers |-> "idle"]
    /\ racc = [r \in Readers |-> <<>>]
    /\ rval = [r \in Readers |-> <<>>]
    /\ hooked = <<>>
    /\ bootLen = 0
    /\ committed = <<chain, state>>
    /\ closeRet = 0
    /\ raced = NoRace
    /\ pkg = "kchain"
    /\ hookErr = FALSE
    /\ ppc = "idle"
    /\ parg = <<>>
    /\ ptxs = <<>>
    /\ pres = <<>>

\* One iteration of kchain's InitState loop, i from 1: fetch the transaction
\* of sequence i, tx.Verify(prev) with the prev that is declared before the
\* loop and never assigned, then AddKitty or MoveKitty.
KInitStateStep ==
    /\ pkg = "kchain"
    /\ boot = "init"
    /\ ri < ChainLen(chain)
    /\ LET tx == TxOfSeq(chain, ri)
           prev == KNil
           v == KVerify(tx, prev)
           a == KApply(state, tx)
       IN  IF v # "ok" \/ a.err # "ok"
           THEN /\ boot' = "failed"
                /\ bootErr' = IF v # "ok" THEN v ELSE a.err
                /\ UNCHANGED <<state, ri>>
           ELSE /\ state' = a.st
                /\ ri' = ri + 1
                /\ UNCHANGED <<boot, bootErr>>
    /\ UNCHANGED <<pkg, pageVars, hookErr, chain, engineVars, injVars, readVars,
                   hooked, bootLen, committed, closeRet, raced>>

\* The transactions a caller submits to kchain: every well-formed one that
\* continues the chain it sees or starts a chain, and per kitty one whose
\* claimed hash is not its content hash.
KCandidates(ks) ==
    LET links == {<<ChainLen(chain), IF Len(chain) = 0 THEN EmptyTxHash
                                     ELSE KHash(KChainHead(chain))>>,
                  <<0, EmptyTxHash>>}
    IN  {KMkTx(l[1], l[2], k, from, to, sig, TRUE) :
            l \in links, k \in ks, from \in Addresses, to \in Addresses,
            sig \in Keys}
          \cup {KMkTx(0, EmptyTxHash, k, AddressOf(CreatorPK),
                      AddressOf(CreatorPK), CreatorPK, FALSE) : k \in ks}

\* A caller invokes kchain's InjectTx(tx).
KInjectCall(w, ks) ==
    /\ pkg = "kchain"
    /\ Alive /\ boot = "up"
    /\ ipc[w] = "idle"
    /\ Len(chain) + Cardinality(InFlight) < MaxChain
    /\ \E tx \in KCandidates(ks) : itx' = [itx EXCEPT ![w] = tx]
    /\ ipc' = [ipc EXCEPT ![w] = "lock"]
    /\ ires' = [ires EXCEPT ![w] = "pending"]
    /\ UNCHANGED <<pkg, pageVars, hookErr, chain, state, engineVars, boot, ri, bootErr,
                   iun, readVars, hooked, bootLen, committed, closeRet, raced>>

\* An InjectTx that moves the kitty in the projection before it verifies the
\* transaction.
KInjectVerifyAfterApply(w) ==
    /\ pkg = "kchain"
    /\ Alive
    /\ ipc[w] = "verify"
    /\ LET a == KApply(state, itx[w])
           v == KVerify(itx[w], KChainHead(chain))
       IN  /\ state' = a.st
           /\ IF a.err = "ok" /\ v = "ok"
              THEN /\ ipc' = [ipc EXCEPT ![w] = "append"]
                   /\ UNCHANGED ires
              ELSE /\ ipc' = [ipc EXCEPT ![w] = "unlock"]
                   /\ ires' = [ires EXCEPT ![w] = IF a.err # "ok" THEN a.err ELSE v]
    /\ UNCHANGED <<pkg, pageVars, hookErr, chain, engineVars, boot, ri, bootErr, itx,
                   iun, readVars, hooked, bootLen, committed, closeRet, raced>>

\* prev is the head of the chain, nil on an empty chain; tx.Verify(prev),
\* whose error InjectTx returns.
KInjectVerify(w) ==
    /\ pkg = "kchain"
    /\ Alive
    /\ ipc[w] = "verify"
    /\ LET v == KVerify(itx[w], KChainHead(chain))
       IN  IF v = "ok"
           THEN /\ ipc' = [ipc EXCEPT ![w] = "apply"]
                /\ UNCHANGED ires
           ELSE /\ ipc' = [ipc EXCEPT ![w] = "unlock"]
                /\ ires' = [ires EXCEPT ![w] = v]
    /\ UNCHANGED <<pkg, pageVars, hookErr, chain, state, engineVars, boot, ri, bootErr,
                   itx, iun, readVars, hooked, bootLen, committed, closeRet, raced>>

\* AddKitty or MoveKitty on the projection, whose error InjectTx returns.
KInjectApply(w) ==
    /\ pkg = "kchain"
    /\ Alive
    /\ ipc[w] = "apply"
    /\ LET a == KApply(state, itx[w])
       IN  /\ state' = a.st
           /\ IF a.err = "ok"
              THEN /\ ipc' = [ipc EXCEPT ![w] = "append"]
                   /\ UNCHANGED ires
              ELSE /\ ipc' = [ipc EXCEPT ![w] = "unlock"]
                   /\ ires' = [ires EXCEPT ![w] = a.err]
    /\ UNCHANGED <<pkg, pageVars, hookErr, chain, engineVars, boot, ri, bootErr, itx,
                   iun, readVars, hooked, bootLen, committed, closeRet, raced>>

\* bc.chain.AddTx(*tx): the append and its notification, or the store's
\* error, with which InjectTx panics; nothing recovers the panic.
KInjectAppend(w) ==
    /\ pkg = "kchain"
    /\ Alive
    /\ ipc[w] = "append"
    /\ \E stored \in BOOLEAN :
          IF stored
          THEN /\ chain' = Append(chain, itx[w])
               /\ txChan' = Append(txChan, itx[w])
               /\ ires' = [ires EXCEPT ![w] = "ok"]
               /\ ipc' = [ipc EXCEPT ![w] = "unlock"]
               /\ UNCHANGED svc
          ELSE /\ svc' = "panicked"
               /\ ires' = [ires EXCEPT ![w] = "panic"]
               /\ ipc' = [ipc EXCEPT ![w] = "panicked"]
               /\ UNCHANGED <<chain, txChan>>
    /\ UNCHANGED <<pkg, pageVars, hookErr, state, mux, quit, svcTx, boot, ri, bootErr,
                   itx, iun, readVars, hooked, bootLen, committed, closeRet, raced>>

\* The process ends and NewBlockChain of kchain runs again over the log, with
\* a new, empty projection.
KRestart ==
    /\ pkg = "kchain"
    /\ boot # "init" \/ ~Alive
    /\ state' = KEmptyState
    /\ txChan' = <<>>
    /\ mux' = NoLock
    /\ quit' = FALSE
    /\ boot' = "init"
    /\ ri' = 1
    /\ bootErr' = "none"
    /\ svc' = "none"
    /\ svcTx' = NoTx
    /\ ipc' = [w \in Injectors |-> "idle"]
    /\ itx' = [w \in Injectors |-> NoTx]
    /\ ires' = [w \in Injectors |-> "none"]
    /\ iun' = [w \in Injectors |-> NoTx]
    /\ rpc' = [r \in Readers |-> "idle"]
    /\ racc' = [r \in Readers |-> <<>>]
    /\ rval' = [r \in Readers |-> <<>>]
    /\ hooked' = <<>>
    /\ bootLen' = Len(chain)
    /\ committed' = <<chain, KEmptyState>>
    /\ closeRet' = 0
    /\ raced' = NoRace
    /\ hookErr' = FALSE
    /\ UNCHANGED <<chain, pkg, pageVars>>

\* The kchain ledger over restarts: one caller injecting transactions of both
\* kitties, the process restarting and replaying the log.
NextKLedger ==
    \/ KInitStateStep
    \/ StartService
    \/ KInjectCall("w1", Kitties)
    \/ InjectLock("w1")
    \/ KInjectVerify("w1")
    \/ KInjectApply("w1")
    \/ KInjectAppend("w1")
    \/ InjectUnlock("w1")
    \/ KRestart

SpecKLedger == KInit /\ [][NextKLedger]_vars
\* Both packages, each with one caller injecting transactions of both
\* kitties and the process restarting.
InitAny == Init \/ KInit

NextAny ==
    \/ pkg = "iko" /\ Prepare
    \/ pkg = "iko" /\ InitStateStep
    \/ pkg = "iko" /\ InjectCall("w1", Kitties)
    \/ pkg = "iko" /\ InjectVerify("w1")
    \/ pkg = "iko" /\ InjectApply("w1")
    \/ pkg = "iko" /\ InjectAppend("w1")
    \/ pkg = "iko" /\ Restart
    \/ KInitStateStep
    \/ KInjectCall("w1", Kitties)
    \/ KInjectVerify("w1")
    \/ KInjectApply("w1")
    \/ KInjectAppend("w1")
    \/ KRestart
    \/ StartService
    \/ InjectLock("w1")
    \/ InjectUnlock("w1")

SpecAny == InitAny /\ [][NextAny]_vars

\* C17: a projection failure is fatal.  When AddKitty or MoveKitty fails in
\* an InjectTx whose transaction has passed verification, the engine is in
\* its fatal state; the failure is not an error the call returns.
ProjectionFailureIsFatal ==
    \A w \in Injectors :
        ires[w] \in {"DuplicateAsset", "StaleOwnership"} => ~Alive

\* The errors of a rejected injection.
RejectErrors ==
    {"MalformedTransaction", "UnauthorizedCreation", "InvalidSignature",
     "StaleReference", "DuplicateAsset", "StaleOwnership"}

\* C18: a rejected injection changes nothing.  When InjectTx is about to
\* return one of the rejection errors, the chain log and the projection are
\* what they were when the call took the lock, and the notifications emitted
\* are those of the transactions appended: none for the rejected one.
RejectedInjectChangesNothing ==
    \A w \in Injectors :
        (ipc[w] = "unlock" /\ ires[w] \in RejectErrors)
            => /\ chain = committed[1]
               /\ state = committed[2]
               /\ Len(txChan) = Len(chain) - bootLen

\* kchain rejects the transfer of a kitty by an address that does not own
\* it, after another transaction was committed.
StaleOwnershipRejected ==
    /\ pkg = "kchain"
    /\ ipc["w1"] = "unlock" /\ ires["w1"] = "StaleOwnership"
    /\ Len(chain) = 1 /\ Len(txChan) = 1
    /\ state[itx["w1"].KittyID] # "none"

\* The projection that the successful InjectTx calls behind a kchain log
\* built.
RECURSIVE KProjectionOf(_, _)
KProjectionOf(ch, n) ==
    IF n = 0 THEN KEmptyState
    ELSE KApply(KProjectionOf(ch, n - 1), ch[n]).st

\* C20: kchain's replay matches its injection.  NewBlockChain over a log that
\* successful InjectTx calls produced returns no error, and at rest the
\* projection is the one those calls built.
KReplayMatchesInjection ==
    /\ boot \in {"up", "failed"} => bootErr = "none"
    /\ (boot = "up" /\ InFlight = {}) => state = KProjectionOf(chain, Len(chain))
====
